---- MODULE Spec2Model ----
(***************************************************************************)
(* Authentication and token-refresh subsystem of the MERN backend          *)
(* (day_011 controllers and middleware, day_009 user model, day_010 app).  *)
(*                                                                         *)
(* Every request handler is one action.  The database is the sequence of   *)
(* user documents (the document with _id = i is db[i]).  Time is the clock *)
(* in whole seconds that jsonwebtoken reads (Math.floor(Date.now()/1000)). *)
(* A signed token is the record of what determines its bytes: the secret   *)
(* it was signed with and its payload (claims, iat, exp).  A string that   *)
(* bcrypt handles is a sequence of naturals; a bcrypt hash is the sequence *)
(* <<0, salt>> followed by the hashed string.                              *)
(***************************************************************************)
EXTENDS Integers, Sequences, FiniteSets, TLC

VARIABLES db, now, issued, logins, last, pre, env, destroyed, temp

vars == <<db, now, issued, logins, last, pre, env, destroyed, temp>>

-----------------------------------------------------------------------------
(* Bounds of the model *)

MaxUsers == 2
MaxTime == 3
MaxLogins == 2
AccessTTL == 2
RefreshTTL == 3
MaxAssets == 3

-----------------------------------------------------------------------------
(* Request inputs *)

None == ""
UserNames == {"@al", "@bo"}
Emails == {"al@x.io", "bo@x.io"}
FullNames == {"al bo"}
NoString == << >>
PlainPasswords == {<<1>>, <<2>>}
Salts == {1}

-----------------------------------------------------------------------------
(* bcrypt *)

bcryptHash(s, salt) == <<0, salt>> \o s

IsHash(s) == Len(s) >= 3 /\ s[1] = 0

bcryptCompare(entered, stored) ==
    /\ IsHash(stored)
    /\ bcryptHash(entered, stored[2]) = stored

-----------------------------------------------------------------------------
(* jsonwebtoken *)

JWT_SECRET == "JWT_SECRET"
REFRESH_TOKEN_SECRET == "REFRESH_TOKEN_SECRET"

\* a variable the environment does not define
Undefined == "undefined"

\* process.env as deployed, and with one or both secrets left out
Configured == [JWT_SECRET |-> JWT_SECRET, REFRESH_TOKEN_SECRET |-> REFRESH_TOKEN_SECRET]

Environments ==
    [JWT_SECRET : {JWT_SECRET, Undefined},
     REFRESH_TOKEN_SECRET : {REFRESH_TOKEN_SECRET, Undefined}]

NoToken ==
    [secret |-> "", id |-> 0, email |-> "", userName |-> "", fullName |-> "",
     iat |-> 0, exp |-> 0]

NullToken == [NoToken EXCEPT !.secret = "null"]

ForgedToken(id) == [NoToken EXCEPT !.secret = "forged", !.id = id, !.exp = MaxTime + 1]

jwtSign(payload, secret, expiresIn, t) ==
    [secret |-> secret, id |-> payload.id, email |-> payload.email,
     userName |-> payload.userName, fullName |-> payload.fullName,
     iat |-> t, exp |-> t + expiresIn]

jwtDecode(token, secret, t) == [ok |-> TRUE, id |-> token.id]

\* jwt.sign throws "secretOrPrivateKey must have a value" when given no secret
jwtSignThrows(secret) == secret = Undefined

\* jwt.verify: [ok |-> TRUE, decoded |-> payload] or a thrown error
jwtVerify(token, secret, t) ==
    IF secret # Undefined /\ token.secret = secret /\ t < token.exp
        THEN [ok |-> TRUE, id |-> token.id]
        ELSE [ok |-> FALSE, id |-> 0]

-----------------------------------------------------------------------------
(* User model *)

NewUser(userName, email, fullName, password, avatarId, coverImageId) ==
    [userName |-> userName, email |-> email, fullName |-> fullName,
     password |-> password, refreshToken |-> NoToken,
     avatarId |-> avatarId, coverImageId |-> coverImageId]

isModifiedAlways(doc, old) == TRUE

\* Mongoose marks a path modified only when the assigned value differs
isModifiedPassword(doc, old) == doc.password # old.password

preSave(doc, old, salt) ==
    IF ~isModifiedPassword(doc, old) THEN doc
    ELSE [doc EXCEPT !.password = bcryptHash(doc.password, salt)]

isPasswordMatchAny(user, enteredPassword) == TRUE

isPasswordMatch(user, enteredPassword) == bcryptCompare(enteredPassword, user.password)

generateJwtToken(user, id, t) ==
    jwtSign([id |-> id, email |-> user.email, userName |-> user.userName,
             fullName |-> user.fullName], env.JWT_SECRET, AccessTTL, t)

generateRefreshTokenWithJwtSecret(user, id, t) ==
    jwtSign([id |-> id, email |-> "", userName |-> "", fullName |-> ""],
            JWT_SECRET, RefreshTTL, t)

generateRefreshToken(user, id, t) ==
    jwtSign([id |-> id, email |-> "", userName |-> "", fullName |-> ""],
            env.REFRESH_TOKEN_SECRET, RefreshTTL, t)

-----------------------------------------------------------------------------
(* Errors and responses *)

apiError(statusCode, message, errors) ==
    [api |-> TRUE, statusCode |-> statusCode, message |-> message, errors |-> errors]

\* an Error that is no apiError (ReferenceError, TypeError, Mongo errors): no statusCode
nativeError(message) ==
    [api |-> FALSE, statusCode |-> 0, message |-> message, errors |-> << >>]

NotSet ==
    [set |-> FALSE, value |-> NoToken, maxAge |-> 0,
     httpOnly |-> FALSE, secure |-> FALSE, sameSite |-> ""]

ACCESS_COOKIE_MAX_AGE == 900000
REFRESH_COOKIE_MAX_AGE == 604800000

CookieUnflagged(value, maxAge) ==
    [set |-> TRUE, value |-> value, maxAge |-> maxAge,
     httpOnly |-> FALSE, secure |-> FALSE, sameSite |-> ""]

\* res.cookie(name, value, {httpOnly: true, secure: true, sameSite: "strict", maxAge})
Cookie(value, maxAge) ==
    [set |-> TRUE, value |-> value, maxAge |-> maxAge,
     httpOnly |-> TRUE, secure |-> TRUE, sameSite |-> "strict"]

\* the data of a response body: the account it describes (0: data is null) and
\* the password and refreshToken fields it carries
NoData == [user |-> 0, password |-> NoString, refreshToken |-> NoToken]

\* const { password: _, refreshToken: __, ...userData } = user.toObject()
userData(id, doc) == [user |-> id, password |-> NoString, refreshToken |-> NoToken]

\* { user }: the document as res.json serialises it, every stored field included
userDocument(id, doc) ==
    [user |-> id, password |-> doc.password, refreshToken |-> doc.refreshToken]

Response(status, data, message, errors, accessCookie, refreshCookie) ==
    [status |-> status, data |-> data, message |-> message, errors |-> errors,
     accessToken |-> accessCookie, refreshToken |-> refreshCookie]

\* app.use((err, req, res, next) => ...)
errorHandler(err) ==
    LET statusCode == IF err.statusCode # 0 THEN err.statusCode ELSE 500
    IN  Response(IF err.api THEN err.statusCode ELSE statusCode, NoData,
                 err.message, err.errors, NotSet, NotSet)

apiRes(statusCode, data, message) ==
    Response(statusCode, data, message, << >>, NotSet, NotSet)

\* what a handler leaves behind: the database, the response, the tokens it signed,
\* the account it logged in (0: none), the Cloudinary assets it destroyed, the
\* temp files it removed itself, and whether it ended by throwing
Outcome(d, res, signed, loggedIn) ==
    [db |-> d, res |-> res, signed |-> signed, loggedIn |-> loggedIn,
     destroyed |-> {}, unlinked |-> {}, thrown |-> FALSE]

Throw(d, err) == [Outcome(d, errorHandler(err), {}, 0) EXCEPT !.thrown = TRUE]

-----------------------------------------------------------------------------
(* Mongoose queries *)

\* what is left at the _id of a document that was deleted: an _id is never reused
Gone == [userName |-> None, email |-> None, fullName |-> None,
         password |-> NoString, refreshToken |-> NoToken,
         avatarId |-> 0, coverImageId |-> 0]

Ids(d) == {i \in 1..Len(d) : d[i] # Gone}

\* the lowest _id among the set, 0 (null) when it is empty
First(S) == IF S = {} THEN 0 ELSE CHOOSE i \in S : \A j \in S : i <= j

findOneAny(d, userName, email) ==
    First({i \in Ids(d) : d[i].userName = userName \/ d[i].email = email})

\* User.findOne({userName?, email?}): every given field must match
findOne(d, userName, email) ==
    First({i \in Ids(d) : /\ (userName # None => d[i].userName = userName)
                          /\ (email # None => d[i].email = email)})

\* User.findOne({$or: [{userName}, {email}]})
findOneOr(d, userName, email) ==
    First({i \in Ids(d) : d[i].userName = userName \/ d[i].email = email})

findById(d, id) == IF id \in Ids(d) THEN id ELSE 0

NoUniqueIndex(d, id, doc) == FALSE

\* the unique indexes on userName and email
DuplicateKey(d, id, doc) ==
    \E j \in Ids(d) \ {id} : d[j].userName = doc.userName \/ d[j].email = doc.email

-----------------------------------------------------------------------------
(* Requests *)

NoRequest ==
    [userName |-> None, email |-> None, fullName |-> None, password |-> NoString,
     newPassword |-> NoString, avatar |-> FALSE, uploadOk |-> TRUE,
     coverImage |-> FALSE, coverOk |-> TRUE, destroyOk |-> TRUE,
     accessToken |-> NoToken, authorization |-> NoToken, refreshToken |-> NoToken]

Opt(cond, field) == IF cond THEN <<field>> ELSE << >>

\* utils/validation.js: only the fields that are present are validated; a bcrypt
\* hash (60 characters, with '.' and '/') fails the password pattern
ValidateUser(body) == ~IsHash(body.password)

-----------------------------------------------------------------------------
(* Uploads: multer, utils/cloudinary.js *)

NoError == apiError(0, "", << >>)

\* .fields([{ name: "avatar" }, { name: "coverImage" }])
FileFields == {"avatar", "coverImage"}

UploadRoutes == {"register", "registerLate", "updateUserProfile"}

\* the files of a request that multer has written to uploads/temp: on the routes
\* that have an uploader, and on PATCH /profile only after verifyJWT called next()
multer(op, req, gate) ==
    IF op \in UploadRoutes /\ gate # "reject"
        THEN {f \in FileFields : req[f]}
        ELSE {}

\* the global error handler removes every file of req.files that is still there
unlinkFiles(files, disk) == disk \ files

\* the public ids that documents reference
AssetsOf(d) == UNION {{d[i].avatarId, d[i].coverImageId} : i \in Ids(d)} \ {0}

\* result.public_id of an upload: an id that names no other asset (unique_filename)
publicId(d, taken) == First((1..(MaxAssets + 2)) \ (destroyed \cup AssetsOf(d) \cup taken))

uploadToCloudinaryKeep(file, ok, autoDelete) == [ok |-> ok, unlinked |-> {}]

\* the upload succeeds or throws; the finally block removes the local file
uploadToCloudinary(file, ok, autoDelete) ==
    [ok |-> ok, unlinked |-> IF autoDelete THEN {file} ELSE {}]

UploadFailed == apiError(500, "Failed to upload file to Cloudinary", <<"Unknown error">>)

\* updateUserProfile, one file field: the old asset is destroyed, then the new file
\* is uploaded and its public id assigned to the document in memory
replaceAsset(file, present, old, destroyOk, uploadOk, fresh) ==
    IF ~present
        THEN [ok |-> TRUE, err |-> NoError, destroyed |-> {}, unlinked |-> {}, id |-> old]
    ELSE IF old # 0 /\ ~destroyOk
        THEN [ok |-> FALSE,
              err |-> apiError(500, "Failed to delete file from Cloudinary", <<"Unknown error">>),
              destroyed |-> {}, unlinked |-> {}, id |-> old]
    ELSE LET upload == uploadToCloudinary(file, uploadOk, TRUE)
         IN  [ok |-> upload.ok,
              err |-> IF upload.ok THEN NoError ELSE UploadFailed,
              destroyed |-> {old} \ {0},
              unlinked |-> upload.unlinked,
              id |-> IF upload.ok THEN fresh ELSE old]

-----------------------------------------------------------------------------
(* middlewares/auth.middleware.js *)

Gate(pass, user, err) == [pass |-> pass, user |-> user, err |-> err]

verifyJWTStateful(req, d, t) ==
    LET token == IF req.accessToken # NoToken THEN req.accessToken ELSE req.authorization
        decoded == jwtVerify(token, env.JWT_SECRET, t)
    IN  IF token = NoToken THEN Gate(FALSE, 0, apiError(401, "Access token is missing", << >>))
        ELSE IF ~decoded.ok \/ findById(d, decoded.id) = 0
                \/ d[decoded.id].refreshToken.secret # REFRESH_TOKEN_SECRET
            THEN Gate(FALSE, 0, apiError(401, "Invalid access token", << >>))
        ELSE Gate(TRUE, findById(d, decoded.id), NoError)

verifyJWTAnySecret(req, d, t) ==
    LET token == IF req.accessToken # NoToken THEN req.accessToken ELSE req.authorization
        decoded == jwtVerify(token, token.secret, t)
    IN  IF token = NoToken THEN Gate(FALSE, 0, apiError(401, "Access token is missing", << >>))
        ELSE IF ~decoded.ok \/ token \notin issued
            THEN Gate(FALSE, 0, apiError(401, "Invalid access token", << >>))
        ELSE Gate(TRUE, findById(d, decoded.id), NoError)

verifyJWTHeaderFirst(req, d, t) ==
    LET token == IF req.authorization # NoToken THEN req.authorization ELSE req.accessToken
        decoded == jwtVerify(token, env.JWT_SECRET, t)
    IN  IF token = NoToken THEN Gate(FALSE, 0, apiError(401, "Access token is missing", << >>))
        ELSE IF ~decoded.ok THEN Gate(FALSE, 0, apiError(401, "Invalid access token", << >>))
        ELSE Gate(TRUE, findById(d, decoded.id), NoError)

verifyJWT(req, d, t) ==
    LET token == IF req.accessToken # NoToken THEN req.accessToken ELSE req.authorization
        decoded == jwtVerify(token, env.JWT_SECRET, t)
    IN  IF token = NoToken THEN Gate(FALSE, 0, apiError(401, "Access token is missing", << >>))
        ELSE IF ~decoded.ok THEN Gate(FALSE, 0, apiError(401, "Invalid access token", << >>))
        ELSE Gate(TRUE, findById(d, decoded.id), NoError)

-----------------------------------------------------------------------------
(* controllers/user.controller.js *)

saveDropped(d, id, doc, salt) == d

\* document.save(): the pre-save hook, then the write
save(d, id, doc, salt) == [d EXCEPT ![id] = preSave(doc, d[id], salt)]

\* User.create(doc): the pre-save hook, then the insert under the unique indexes
create(d, doc, salt) ==
    IF DuplicateKey(d, 0, doc) THEN Throw(d, nativeError("E11000 duplicate key error"))
    ELSE Outcome(Append(d, preSave(doc, [doc EXCEPT !.password = NoString], salt)),
                 apiRes(201, userData(Len(d) + 1, doc), "User registered successfully"),
                 {}, 0)

\* registerUser, whose existence check (line 35) read the collection as seen and
\* whose User.create (line 67) runs on the collection as d
registerUserAcross(req, seen, d, salt) ==
    IF req.fullName = None \/ req.password = NoString
       \/ (req.userName = None /\ req.email = None)
        THEN Throw(d, apiError(400, "Please provide all required fields",
                     Opt(req.fullName = None, "fullName") \o Opt(req.userName = None, "userName")
                     \o Opt(req.email = None, "email") \o Opt(req.password = NoString, "password")))
    ELSE IF ~ValidateUser(req)
        THEN Throw(d, apiError(400, "Password must contain at least one uppercase letter, one lowercase letter, one number, and one special character (@$!%*?&)",
                               <<"password">>))
    ELSE IF ~req.avatar THEN Throw(d, apiError(400, "Avatar is required", <<"avatar">>))
    ELSE LET existingUser == findOneOr(seen, req.userName, req.email) IN
    IF existingUser # 0
        THEN Throw(d, apiError(400, "User already exists",
                     <<IF seen[existingUser].userName = req.userName
                           THEN "userName" ELSE "email">>))
    ELSE LET avatar == uploadToCloudinary("avatar", req.uploadOk, TRUE)
             coverImage == IF req.coverImage
                               THEN uploadToCloudinary("coverImage", req.coverOk, TRUE)
                               ELSE [ok |-> TRUE, unlinked |-> {}]
             avatarId == publicId(d, {})
             coverImageId == IF req.coverImage THEN publicId(d, {avatarId}) ELSE 0
         IN
    IF ~avatar.ok
        THEN [Throw(d, UploadFailed) EXCEPT !.unlinked = avatar.unlinked]
    ELSE IF ~coverImage.ok
        THEN [Throw(d, UploadFailed) EXCEPT !.unlinked = avatar.unlinked \cup coverImage.unlinked]
    ELSE IF req.userName = None \/ req.email = None
        THEN [Throw(d, nativeError("User validation failed"))
                 EXCEPT !.unlinked = avatar.unlinked \cup coverImage.unlinked]
    ELSE [create(d, NewUser(req.userName, req.email, req.fullName, req.password,
                            avatarId, coverImageId), salt)
             EXCEPT !.unlinked = avatar.unlinked \cup coverImage.unlinked]

\* no other request between the existence check and the insert
registerUser(req, d, salt) == registerUserAcross(req, d, d, salt)

loginUser(req, d, t) ==
    IF (req.userName = None /\ req.email = None) \/ req.password = NoString
        THEN Throw(d, apiError(400, "Please provide all required fields",
                     Opt(req.userName = None /\ req.email = None, "userName or email")
                     \o Opt(req.password = NoString, "password")))
    ELSE LET user == findOne(d, req.userName, req.email) IN
    IF user = 0 \/ ~isPasswordMatch(d[user], req.password)
        THEN Throw(d, apiError(401, "Invalid credentials",
                     Opt(user = 0, "userName or email")
                     \o Opt(user # 0 /\ ~isPasswordMatch(d[user], req.password), "password")))
    ELSE IF jwtSignThrows(env.JWT_SECRET) \/ jwtSignThrows(env.REFRESH_TOKEN_SECRET)
        THEN Throw(d, nativeError("secretOrPrivateKey must have a value"))
    ELSE LET accessToken == generateJwtToken(d[user], user, t)
             refreshToken == generateRefreshToken(d[user], user, t)
             saved == save(d, user, [d[user] EXCEPT !.refreshToken = refreshToken], 1)
         IN  Outcome(saved,
                     Response(200, userData(user, saved[user]),
                              "User logged in successfully", << >>,
                              Cookie(accessToken, ACCESS_COOKIE_MAX_AGE),
                              Cookie(refreshToken, REFRESH_COOKIE_MAX_AGE)),
                     {accessToken, refreshToken}, user)

logoutUserSessionRequired(req, d, reqUser) ==
    IF reqUser = 0 THEN Throw(d, nativeError("Cannot read properties of null (reading 'id')"))
    ELSE IF d[reqUser].refreshToken.secret # REFRESH_TOKEN_SECRET
        THEN Throw(d, apiError(401, "No active session", << >>))
    ELSE Outcome([d EXCEPT ![reqUser].refreshToken = NullToken],
                 Response(200, NoData, "User logged out successfully", << >>,
                          Cookie(NoToken, 0), Cookie(NoToken, 0)),
                 {}, 0)

\* runs behind verifyJWT; reqUser is req.user (0: null)
logoutUser(req, d, reqUser) ==
    IF reqUser = 0 THEN Throw(d, nativeError("Cannot read properties of null (reading 'id')"))
    ELSE Outcome([d EXCEPT ![reqUser].refreshToken = NullToken],
                 Response(200, NoData, "User logged out successfully", << >>,
                          Cookie(NoToken, 0), Cookie(NoToken, 0)),
                 {}, 0)

\* the controller imports no jsonwebtoken: evaluating jwt.verify(...) there
\* throws a ReferenceError whatever the token is
controllerJwtVerify(token, secret, t) == [ok |-> FALSE, id |-> 0]

refreshCatchRethrow(d, error) == Throw(d, error)

refreshCatchRevoke(d, error) ==
    Throw([i \in DOMAIN d |-> [d[i] EXCEPT !.refreshToken = NullToken]],
          apiError(401, "Invalid refresh token", << >>))

\* catch (error) { throw new apiError(401, "Invalid refresh token"); }
refreshCatch(d, error) == Throw(d, apiError(401, "Invalid refresh token", << >>))

generateNewTokensInFlight(req, d, t) ==
    LET decoded == jwtVerify(req.refreshToken, env.REFRESH_TOKEN_SECRET, t)
        user == findById(d, decoded.id)
    IN  IF req.refreshToken = NoToken
            THEN Throw(d, apiError(401, "Refresh token is missing", << >>))
        ELSE IF ~decoded.ok \/ user = 0
            THEN Throw(d, apiError(401, "Invalid refresh token", << >>))
        ELSE LET accessToken == generateJwtToken(d[user], user, t)
                 newRefreshToken == generateRefreshToken(d[user], user, t)
                 saved == save(d, user, [d[user] EXCEPT !.refreshToken = newRefreshToken], 1)
             IN  Outcome(saved,
                         Response(200, userData(user, saved[user]),
                                  "Tokens refreshed successfully", << >>,
                                  Cookie(accessToken, ACCESS_COOKIE_MAX_AGE),
                                  Cookie(newRefreshToken, REFRESH_COOKIE_MAX_AGE)),
                         {accessToken, newRefreshToken}, 0)

\* the user model defines generateJwtToken and generateRefreshToken only: the
\* call user.generateAccessToken() throws a TypeError, and what follows it in the
\* try block (the new refresh token, the save, the cookies) never runs
generateNewTokens(req, d, t) ==
    IF req.refreshToken = NoToken
        THEN Throw(d, apiError(401, "Refresh token is missing", << >>))
    ELSE LET decoded == controllerJwtVerify(req.refreshToken, env.REFRESH_TOKEN_SECRET, t)
             user == findById(d, decoded.id)
         IN  IF ~decoded.ok THEN refreshCatch(d, nativeError("jwt is not defined"))
             ELSE IF user = 0 \/ d[user].refreshToken # req.refreshToken
                 THEN refreshCatch(d, apiError(401, "Invalid refresh token", << >>))
             ELSE refreshCatch(d, nativeError("user.generateAccessToken is not a function"))

changePassword(req, d, reqUser, salt) ==
    IF reqUser = 0 THEN Throw(d, nativeError("Cannot read properties of null (reading 'id')"))
    ELSE IF req.password = NoString \/ req.newPassword = NoString
        THEN Throw(d, apiError(400, "Old password and new password are required", << >>))
    ELSE LET user == findById(d, reqUser) IN
    IF user = 0 THEN Throw(d, apiError(404, "User not found", << >>))
    ELSE IF ~isPasswordMatch(d[user], req.password)
        THEN Throw(d, apiError(401, "Old password is incorrect", << >>))
    ELSE Outcome(save(d, user, [d[user] EXCEPT !.password = req.newPassword], salt),
                 apiRes(200, NoData, "Password changed successfully"), {}, 0)

getUserProfile(req, d, reqUser) ==
    IF reqUser = 0 THEN Throw(d, nativeError("Cannot read properties of null (reading 'id')"))
    ELSE IF findById(d, reqUser) = 0 THEN Throw(d, apiError(404, "User not found", << >>))
    ELSE Outcome(d, apiRes(200, userData(reqUser, d[reqUser]),
                           "User profile fetched successfully"), {}, 0)

Or(a, b) == IF a # None THEN a ELSE b

updateUserProfile(req, d, reqUser) ==
    IF reqUser = 0 THEN Throw(d, nativeError("Cannot read properties of null (reading 'id')"))
    ELSE IF ~ValidateUser(req)
        THEN Throw(d, apiError(400, "Password must contain at least one uppercase letter, one lowercase letter, one number, and one special character (@$!%*?&)",
                               <<"password">>))
    ELSE LET user == findById(d, reqUser) IN
    IF user = 0 THEN Throw(d, apiError(404, "User not found", << >>))
    ELSE LET avatar == replaceAsset("avatar", req.avatar, d[user].avatarId,
                                    req.destroyOk, req.uploadOk, publicId(d, {}))
             coverImage == replaceAsset("coverImage", req.coverImage, d[user].coverImageId,
                                        req.destroyOk, req.coverOk, publicId(d, {avatar.id}))
             doc == [d[user] EXCEPT !.avatarId = avatar.id,
                                    !.coverImageId = coverImage.id,
                                    !.fullName = Or(req.fullName, @),
                                    !.userName = Or(req.userName, @),
                                    !.email = Or(req.email, @)]
         IN
    IF ~avatar.ok
        THEN [Throw(d, avatar.err) EXCEPT !.destroyed = avatar.destroyed,
                                          !.unlinked = avatar.unlinked]
    ELSE IF ~coverImage.ok
        THEN [Throw(d, coverImage.err)
                 EXCEPT !.destroyed = avatar.destroyed \cup coverImage.destroyed,
                        !.unlinked = avatar.unlinked \cup coverImage.unlinked]
    ELSE IF DuplicateKey(d, user, doc)
        THEN [Throw(d, nativeError("E11000 duplicate key error"))
                 EXCEPT !.destroyed = avatar.destroyed \cup coverImage.destroyed,
                        !.unlinked = avatar.unlinked \cup coverImage.unlinked]
    ELSE [Outcome(save(d, user, doc, 1),
                  apiRes(200, userDocument(user, save(d, user, doc, 1)[user]),
                         "User profile updated successfully"), {}, 0)
             EXCEPT !.destroyed = avatar.destroyed \cup coverImage.destroyed,
                    !.unlinked = avatar.unlinked \cup coverImage.unlinked]

\* a route behind verifyJWT: the handler runs only when the gate lets the request pass
Protected(gate, d, outcome) == IF gate.pass THEN outcome ELSE Throw(d, gate.err)

-----------------------------------------------------------------------------
(* The state machine *)

NoGate == "none"
GateOf(g) == IF g.pass THEN "pass" ELSE "reject"

\* what is kept of the request just answered: the tokens it presented, the secret
\* it submitted for storage (registration password, new password), the account its
\* lookup key or token names (0: none), whether the password it entered matches
\* that account's stored hash, and the response
Entry(op, req, gate, who, res) ==
    [op |-> op, gate |-> gate, who |-> who,
     userName |-> req.userName, email |-> req.email,
     match |-> who \in Ids(db) /\ bcryptCompare(req.password, db[who].password),
     accessToken |-> req.accessToken, authorization |-> req.authorization,
     refreshToken |-> req.refreshToken,
     secret |-> IF op = "register" THEN req.password ELSE req.newPassword,
     files |-> multer(op, req, gate),
     res |-> res]

NoEntry(op) == Entry(op, NoRequest, NoGate, 0, apiRes(0, NoData, ""))

Init ==
    /\ db = << >>
    /\ now = 0
    /\ issued = {}
    /\ logins = [i \in 1..MaxUsers |-> << >>]
    /\ last = NoEntry("init")
    /\ pre = << >>
    /\ env = Configured
    /\ destroyed = {}
    /\ temp = {}

\* tokens a client can present: those the server has signed, and a forgery
Presentable == issued \cup {ForgedToken(1)}

AccessTokens == {t \in issued : t.secret = JWT_SECRET}

StoredHashes == {db[i].password : i \in Ids(db)}

\* the files of the request that are in uploads/temp once it is answered
Remaining(op, req, gate, out) ==
    LET written == multer(op, req, gate)
        disk == written \ out.unlinked
    IN  IF out.thrown THEN unlinkFiles(written, disk) ELSE disk

\* last is the request just answered and pre the database it found
Apply(op, req, gate, who, out) ==
    /\ AssetsOf(out.db) \cup destroyed \cup out.destroyed \subseteq 1..MaxAssets
    /\ destroyed' = destroyed \cup out.destroyed
    /\ temp' = temp \cup Remaining(op, req, gate, out)
    /\ pre' = db
    /\ db' = out.db
    /\ issued' = issued \cup out.signed
    /\ last' = Entry(op, req, gate, who, out.res)
    /\ env' = env

\* the clock advances between requests
Tick ==
    /\ now < MaxTime
    /\ now' = now + 1
    /\ last' = NoEntry("tick")
    /\ pre' = db
    /\ UNCHANGED <<db, issued, logins, env, destroyed, temp>>

\* a registration form: complete, or with one thing wrong
GoodForm ==
    [NoRequest EXCEPT !.userName = "@al", !.email = "al@x.io", !.fullName = "al bo",
                      !.password = <<1>>, !.avatar = TRUE]

BoForm == [GoodForm EXCEPT !.userName = "@bo", !.email = "bo@x.io", !.password = <<2>>]

RegisterRequests ==
    {GoodForm, BoForm}
    \cup {[GoodForm EXCEPT !.password = p] : p \in StoredHashes \cup {NoString}}
    \cup {[GoodForm EXCEPT !.fullName = None], [BoForm EXCEPT !.userName = None],
          [BoForm EXCEPT !.email = None],
          [GoodForm EXCEPT !.userName = None, !.email = None],
          [BoForm EXCEPT !.avatar = FALSE], [BoForm EXCEPT !.uploadOk = FALSE]}

RegisterWith(forms) ==
    \E req \in forms, salt \in Salts :
        LET out == registerUser(req, db, salt)
        IN  /\ Len(out.db) <= MaxUsers
            /\ Apply("register", req, NoGate, 0, out)
            /\ UNCHANGED <<now, logins>>

Register == RegisterWith(RegisterRequests)

\* a registration that was in flight while other requests were answered: its
\* existence check ran when the collection was still empty, its insert runs now
RegisterLate ==
    \E req \in {GoodForm, BoForm}, salt \in Salts :
        LET out == registerUserAcross(req, << >>, db, salt)
        IN  /\ Len(out.db) <= MaxUsers
            /\ Apply("registerLate", req, NoGate, 0, out)
            /\ UNCHANGED <<now, logins>>

\* registrations that can create the one account @al only
RegisterAl == RegisterWith(RegisterRequests \ {BoForm})

\* by userName, by email, by both (of one account, of two), and incomplete
LoginRequests ==
    {[NoRequest EXCEPT !.userName = u, !.password = p] : u \in UserNames, p \in PlainPasswords}
    \cup {[NoRequest EXCEPT !.email = e, !.password = <<1>>] : e \in Emails}
    \cup {[NoRequest EXCEPT !.userName = "@al", !.email = e, !.password = <<1>>] : e \in Emails}
    \cup {[NoRequest EXCEPT !.userName = "@al"], [NoRequest EXCEPT !.password = <<1>>]}

\* the account a login request names (0: it names none, or gives no identity)
Named(req, d) ==
    IF req.userName = None /\ req.email = None THEN 0
    ELSE findOne(d, req.userName, req.email)

LoginWith(requests) ==
    \E req \in requests :
        LET out == loginUser(req, db, now)
        IN  /\ out.loggedIn # 0 =>
                /\ Len(logins[out.loggedIn]) < MaxLogins
                /\ Cardinality(issued \cup out.signed) <= 2 * MaxLogins
            /\ Apply("login", req, NoGate, Named(req, db), out)
            /\ logins' = IF out.loggedIn = 0 THEN logins
                         ELSE [logins EXCEPT ![out.loggedIn] =
                                  Append(@, out.res.refreshToken.value)]
            /\ UNCHANGED now

Login == LoginWith(LoginRequests)

\* each account signs in with its userName and the password it registered with
SignIn ==
    LoginWith({[NoRequest EXCEPT !.userName = GoodForm.userName, !.password = GoodForm.password],
               [NoRequest EXCEPT !.userName = BoForm.userName, !.password = BoForm.password]})

Logout ==
    \E token \in AccessTokens \cup {NoToken} :
        LET req == [NoRequest EXCEPT !.accessToken = token]
            gate == verifyJWT(req, db, now)
            out == Protected(gate, db, logoutUser(req, db, gate.user))
        IN  /\ Apply("logout", req, GateOf(gate), gate.user, out)
            /\ logins' = IF out.res.status = 200
                         THEN [logins EXCEPT ![gate.user] = << >>] ELSE logins
            /\ UNCHANGED now

Refresh ==
    \E token \in Presentable \cup {NoToken} :
        LET req == [NoRequest EXCEPT !.refreshToken = token]
            out == generateNewTokens(req, db, now)
        IN  /\ Apply("refresh", req, NoGate, findById(db, req.refreshToken.id), out)
            /\ UNCHANGED <<now, logins>>

\* the new password is a plain one or the caller's own stored hash string
OwnHash(token) == IF token.id \in Ids(db) THEN {db[token.id].password} ELSE {}

PasswordForms(token) ==
    {[NoRequest EXCEPT !.password = old, !.newPassword = new] :
        old \in PlainPasswords, new \in PlainPasswords \cup OwnHash(token)}
    \cup {[NoRequest EXCEPT !.password = <<1>>], [NoRequest EXCEPT !.newPassword = <<1>>]}

ChangePassword ==
    \E token \in AccessTokens \cup {NoToken}, salt \in Salts :
        \E form \in PasswordForms(token) :
            LET req == [form EXCEPT !.accessToken = token]
                gate == verifyJWT(req, db, now)
                out == Protected(gate, db, changePassword(req, db, gate.user, salt))
            IN  /\ Apply("changePassword", req, GateOf(gate), gate.user, out)
                /\ UNCHANGED <<now, logins>>

\* the token in the cookie, in the Authorization header, or in both
Credentials ==
    {[NoRequest EXCEPT !.accessToken = c] : c \in Presentable \cup {NoToken}}
    \cup {[NoRequest EXCEPT !.authorization = h] : h \in AccessTokens}
    \cup {[NoRequest EXCEPT !.accessToken = ForgedToken(1), !.authorization = h] :
            h \in AccessTokens}
    \cup {[NoRequest EXCEPT !.accessToken = c, !.authorization = ForgedToken(1)] :
            c \in AccessTokens}

GetUserProfile ==
    \E req \in Credentials :
        LET gate == verifyJWT(req, db, now)
            out == Protected(gate, db, getUserProfile(req, db, gate.user))
        IN  /\ Apply("getUserProfile", req, GateOf(gate), gate.user, out)
            /\ UNCHANGED <<now, logins>>

\* nothing to change, a new userName, a new email
ProfileForms ==
    {NoRequest, [NoRequest EXCEPT !.userName = "@bo"], [NoRequest EXCEPT !.email = "bo@x.io"]}

UpdateWith(forms) ==
    \E token \in AccessTokens \cup {NoToken}, form \in forms :
        LET req == [form EXCEPT !.accessToken = token]
            gate == verifyJWT(req, db, now)
            out == Protected(gate, db, updateUserProfile(req, db, gate.user))
        IN  /\ Apply("updateUserProfile", req, GateOf(gate), gate.user, out)
            /\ UNCHANGED <<now, logins>>

UpdateUserProfile == UpdateWith(ProfileForms)

\* registrations with an avatar and a cover image, either upload failing or not,
\* and without the avatar
UploadRegistrations ==
    {GoodForm, BoForm, [GoodForm EXCEPT !.coverImage = TRUE],
     [BoForm EXCEPT !.coverImage = TRUE, !.coverOk = FALSE],
     [BoForm EXCEPT !.uploadOk = FALSE, !.coverImage = TRUE],
     [BoForm EXCEPT !.avatar = FALSE, !.coverImage = TRUE],
     [BoForm EXCEPT !.coverImage = TRUE, !.password = NoString]}

RegisterFiles == RegisterWith(UploadRegistrations)

\* profile updates with a new avatar, a new cover image or both, an upload or the
\* deletion of the old asset failing or not, and with a userName that may be taken
UploadForms ==
    {[NoRequest EXCEPT !.avatar = TRUE],
     [NoRequest EXCEPT !.avatar = TRUE, !.uploadOk = FALSE],
     [NoRequest EXCEPT !.avatar = TRUE, !.destroyOk = FALSE],
     [NoRequest EXCEPT !.coverImage = TRUE],
     [NoRequest EXCEPT !.avatar = TRUE, !.coverImage = TRUE, !.coverOk = FALSE],
     [NoRequest EXCEPT !.avatar = TRUE, !.userName = "@bo"]}

UpdateFiles == UpdateWith(UploadForms)

\* a document is deleted from the users collection outside the request handlers
\* (User.deleteOne({ _id: userId })); the tokens signed for it stay with their holders
RemoveAccount ==
    \E id \in Ids(db) :
        /\ db' = [db EXCEPT ![id] = Gone]
        /\ pre' = db'
        /\ last' = NoEntry("remove")
        /\ logins' = [logins EXCEPT ![id] = << >>]
        /\ UNCHANGED <<now, issued, env, destroyed, temp>>

\* the server is started again with another environment
Restart ==
    \E e \in Environments \ {env} :
        /\ env' = e
        /\ pre' = db
        /\ last' = NoEntry("restart")
        /\ UNCHANGED <<db, now, issued, logins, destroyed, temp>>

Next ==
    \/ Tick
    \/ Register
    \/ Login
    \/ Logout
    \/ Refresh
    \/ ChangePassword
    \/ GetUserProfile
    \/ UpdateUserProfile
    \/ RemoveAccount
    \/ Restart
    \/ RegisterLate

Spec == Init /\ [][Next]_vars

\* the sessions of one account over time: its tokens are issued, presented,
\* superseded and left to expire; its password and profile stay as registered
SessionNext ==
    \/ Tick
    \/ RegisterAl
    \/ Login
    \/ Logout
    \/ Refresh
    \/ GetUserProfile

SessionSpec == Init /\ [][SessionNext]_vars

\* accounts within one second of the clock: every request, and no tick
AccountNext ==
    \/ Register
    \/ Login
    \/ Logout
    \/ Refresh
    \/ ChangePassword
    \/ UpdateUserProfile

AccountSpec == Init /\ [][AccountNext]_vars

\* the protected routes while accounts are deleted under their tokens
RemovalNext ==
    \/ RegisterAl
    \/ Login
    \/ RemoveAccount
    \/ Logout
    \/ GetUserProfile

RemovalSpec == Init /\ [][RemovalNext]_vars

\* requests with files: registrations and profile updates of signed-in accounts
UploadNext ==
    \/ RegisterFiles
    \/ SignIn
    \/ UpdateFiles

UploadSpec == Init /\ [][UploadNext]_vars

\* registrations, in sequence and overlapping, and profile updates
RegistrationNext ==
    \/ Register
    \/ RegisterLate
    \/ Login
    \/ UpdateUserProfile

RegistrationSpec == Init /\ [][RegistrationNext]_vars

\* the token-issuing routes across restarts with and without the signing secrets
ConfigNext ==
    \/ RegisterAl
    \/ Login
    \/ Refresh
    \/ GetUserProfile
    \/ Restart

ConfigSpec == Init /\ [][ConfigNext]_vars

-----------------------------------------------------------------------------
(* The refresh flow, POST /token *)

\* the refresh token the request just answered presented
Presented == last.refreshToken

\* a valid refresh-secret signature, unexpired, and equal to the token that was
\* stored on the account its payload names when the request arrived
Current(token) ==
    /\ token.secret = REFRESH_TOKEN_SECRET
    /\ now < token.exp
    /\ token.id \in Ids(pre)
    /\ pre[token.id].refreshToken = token

NoCookies(res) == ~res.accessToken.set /\ ~res.refreshToken.set

\* a fresh pair in the two cookies
TokenPair(res, id) ==
    /\ res.accessToken.set /\ res.refreshToken.set
    /\ res.accessToken.value.secret = JWT_SECRET
    /\ res.accessToken.value.id = id
    /\ res.refreshToken.value.secret = REFRESH_TOKEN_SECRET
    /\ res.refreshToken.value.id = id

\* C1: a refresh request is honored (200, new tokens, a write to the session slot)
\* only if the presented token is validly signed, unexpired and equal to the stored
\* one; in every other case it is answered 401, sets no cookie and writes nothing
C1_RefreshHonoredOnlyIfCurrent ==
    last.op = "refresh" =>
        /\ (last.res.status = 200 \/ ~NoCookies(last.res) \/ db # pre) => Current(Presented)
        /\ ~Current(Presented) =>
              /\ last.res.status = 401
              /\ NoCookies(last.res)
              /\ db = pre

\* a validly signed, unexpired refresh token that a later login has superseded is
\* presented and answered 401
C1_Witness ==
    /\ last.op = "refresh"
    /\ Presented.secret = REFRESH_TOKEN_SECRET
    /\ now < Presented.exp
    /\ Presented.id \in Ids(pre)
    /\ pre[Presented.id].refreshToken.secret = REFRESH_TOKEN_SECRET
    /\ pre[Presented.id].refreshToken # Presented
    /\ last.res.status = 401

\* C2: a refresh request presenting the validly signed, unexpired, stored token is
\* answered 200 with a fresh pair in the cookies, and the stored token becomes the
\* refresh token of that pair
C2_CurrentTokenIsRefreshed ==
    (last.op = "refresh" /\ Current(Presented)) =>
        /\ last.res.status = 200
        /\ TokenPair(last.res, Presented.id)
        /\ db[Presented.id].refreshToken = last.res.refreshToken.value

\* C3: rotation: a validly signed, unexpired refresh token is accepted when it is
\* the stored one, which that use supersedes, and rejected with 401 once superseded
C3_RefreshRotation ==
    (/\ last.op = "refresh"
     /\ Presented.secret = REFRESH_TOKEN_SECRET
     /\ now < Presented.exp
     /\ Presented.id \in Ids(pre)) =>
        IF pre[Presented.id].refreshToken = Presented
            THEN last.res.status = 200 /\ db[Presented.id].refreshToken # Presented
            ELSE last.res.status = 401

-----------------------------------------------------------------------------
(* Login, POST /login *)

\* a login naming an identity that no account has
UnknownIdentity == [NoRequest EXCEPT !.userName = "@zz", !.password = <<1>>]

\* C5: a login with an existing identity and its password yields a token pair; one
\* with an existing identity and a wrong password is answered exactly as a login
\* with a nonexistent identity is (status, message, errors)
C5_CredentialGate ==
    (last.op = "login" /\ last.who # 0) =>
        /\ last.match => last.res.status = 200 /\ TokenPair(last.res, last.who)
        /\ last.res.status = 401 => last.res = loginUser(UnknownIdentity, pre, now).res

\* C6: after a login answered 200 the account's stored refresh token is the one in
\* the refreshToken cookie of that response, and the accessToken cookie holds an
\* access token of the same account
C6_LoginPersistsDeliveredToken ==
    (last.op = "login" /\ last.res.status = 200) =>
        /\ TokenPair(last.res, last.who)
        /\ db[last.who].refreshToken = last.res.refreshToken.value

\* the second account logs in while the first holds a session
C6_Witness ==
    /\ last.op = "login"
    /\ last.res.status = 200
    /\ last.who = 2
    /\ pre[2].refreshToken # db[2].refreshToken
    /\ db[1].refreshToken.secret = REFRESH_TOKEN_SECRET

\* C7: once an account has logged in again without logging out, an unexpired refresh
\* token of an earlier login is rejected with 401 and the one of the latest login
\* is accepted
C7_SingleActiveSession ==
    (/\ last.op = "refresh"
     /\ now < Presented.exp
     /\ Presented.id \in Ids(db)
     /\ Len(logins[Presented.id]) >= 2
     /\ \E i \in 1..Len(logins[Presented.id]) : logins[Presented.id][i] = Presented) =>
        IF Presented = logins[Presented.id][Len(logins[Presented.id])]
            THEN last.res.status = 200
            ELSE last.res.status = 401

-----------------------------------------------------------------------------
(* The account record *)

\* C8: every session slot is absent, null, or one refresh token that a successful
\* login signed for that same account
C8_SessionSlot ==
    \A u \in Ids(db) :
        \/ db[u].refreshToken = NoToken
        \/ db[u].refreshToken = NullToken
        \/ /\ db[u].refreshToken.secret = REFRESH_TOKEN_SECRET
           /\ db[u].refreshToken.id = u
           /\ db[u].refreshToken \in issued

\* two accounts, each holding its own session
C8_Witness ==
    /\ Len(db) = 2
    /\ \A u \in Ids(db) : db[u].refreshToken.secret = REFRESH_TOKEN_SECRET

-----------------------------------------------------------------------------
(* The access-token gate *)

\* the token verifyJWT reads from the request just answered
Bearer == IF last.accessToken # NoToken THEN last.accessToken ELSE last.authorization

\* C10: an access token signed at login passes verifyJWT at every moment before its
\* expiry, whatever has happened to the account's session slot, and is answered 401
\* at every moment from its expiry on
C10_AccessTokenStateless ==
    (/\ last.op \in {"getUserProfile", "logout"}
     /\ Bearer.secret = JWT_SECRET
     /\ Bearer \in issued) =>
        IF now < Bearer.exp
            THEN last.gate = "pass"
            ELSE last.gate = "reject" /\ last.res.status = 401

\* an access token passes the gate after a logout has cleared the slot of its account
C10_Witness ==
    /\ last.op = "getUserProfile"
    /\ Bearer.secret = JWT_SECRET
    /\ last.gate = "pass"
    /\ db[Bearer.id].refreshToken = NullToken

-----------------------------------------------------------------------------
(* Logout, POST /logout *)

\* a session slot that holds no token
Empty(slot) == slot \in {NoToken, NullToken}

\* C11: a logout of an authenticated account is answered 200 and leaves the
\* account's session slot empty, also when the slot was empty already (the second
\* of two logouts in a row)
C11_LogoutIdempotent ==
    (last.op = "logout" /\ last.gate = "pass" /\ last.who \in Ids(pre)) =>
        /\ last.res.status = 200
        /\ Empty(db[last.who].refreshToken)

\* the second of two logouts in a row
C11_Witness ==
    /\ last.op = "logout"
    /\ last.who \in Ids(pre)
    /\ pre[last.who].refreshToken = NullToken
    /\ last.res.status = 200
    /\ db[last.who].refreshToken = NullToken

\* C12: while an account's slot is cleared by a logout (no login since), a refresh
\* request presenting a validly signed, unexpired refresh token of that account is
\* answered 401 and changes nothing
C12_ClearedSessionRejected ==
    (/\ last.op = "refresh"
     /\ Presented \in issued
     /\ Presented.secret = REFRESH_TOKEN_SECRET
     /\ now < Presented.exp
     /\ Presented.id \in Ids(pre)
     /\ pre[Presented.id].refreshToken = NullToken) =>
        /\ last.res.status = 401
        /\ NoCookies(last.res)
        /\ db = pre

\* the token of the session that the logout cleared is presented before it expires
C12_Witness ==
    /\ last.op = "refresh"
    /\ Presented \in issued
    /\ Presented.secret = REFRESH_TOKEN_SECRET
    /\ now < Presented.exp
    /\ Presented.id \in Ids(pre)
    /\ pre[Presented.id].refreshToken = NullToken
    /\ logins[Presented.id] = << >>
    /\ last.res.status = 401

-----------------------------------------------------------------------------
(* The access-token gate on the protected routes *)

ProtectedOps == {"getUserProfile", "logout", "changePassword", "updateUserProfile"}

\* jwt.verify(token, JWT_SECRET) would succeed now
ValidAccess(token) == token.secret = JWT_SECRET /\ now < token.exp

\* C13: a request to a protected route without an access token, or with one that is
\* forged, signed with another secret or expired, is answered 401 by the gate; the
\* handler does not run (nothing is written) and no cookie is set
C13_GateFailsClosed ==
    (last.op \in ProtectedOps /\ ~ValidAccess(Bearer)) =>
        /\ last.gate = "reject"
        /\ last.res.status = 401
        /\ last.res.message =
              (IF Bearer = NoToken THEN "Access token is missing" ELSE "Invalid access token")
        /\ NoCookies(last.res)
        /\ db = pre

\* an expired access token of an account that still holds its session
C13_Witness ==
    /\ last.op \in ProtectedOps
    /\ Bearer.secret = JWT_SECRET
    /\ now >= Bearer.exp
    /\ Bearer.id \in Ids(db)
    /\ db[Bearer.id].refreshToken.secret = REFRESH_TOKEN_SECRET
    /\ now < db[Bearer.id].refreshToken.exp
    /\ last.res.status = 401

\* C14: when a request carries a token in the accessToken cookie and another in the
\* Authorization header, the gate's outcome is the one the cookie token determines
C14_CookiePrecedence ==
    (/\ last.op \in ProtectedOps
     /\ last.accessToken # NoToken
     /\ last.authorization # NoToken) =>
        IF ValidAccess(last.accessToken)
            THEN last.gate = "pass"
            ELSE last.gate = "reject" /\ last.res.status = 401

\* an invalid cookie token hides a valid header token
C14_Witness ==
    /\ last.op \in ProtectedOps
    /\ ~ValidAccess(last.accessToken)
    /\ last.accessToken # NoToken
    /\ ValidAccess(last.authorization)
    /\ last.res.status = 401

\* C15: whenever the gate lets a request through to a protected handler, req.user is
\* the existing account that the token's id names, never null
C15_GateAttachesAccount ==
    (last.op \in ProtectedOps /\ last.gate = "pass") =>
        /\ last.who # 0
        /\ last.who = Bearer.id
        /\ last.who \in Ids(pre)

-----------------------------------------------------------------------------
(* Rejections leave the accounts as they were *)

\* C16: every refresh request that is not honored (no cookie, forged, expired,
\* unknown account, or not the stored token) is answered 401, sets no cookie and
\* leaves every stored refresh token and password as it was
C16_RejectedRefreshChangesNothing ==
    (last.op = "refresh" /\ last.res.status # 200) =>
        /\ last.res.status = 401
        /\ last.res.message =
              (IF Presented = NoToken THEN "Refresh token is missing"
               ELSE "Invalid refresh token")
        /\ NoCookies(last.res)
        /\ db = pre

\* a forged token is presented against an account that holds a session
C16_Witness ==
    /\ last.op = "refresh"
    /\ Presented = ForgedToken(1)
    /\ 1 \in Ids(pre)
    /\ pre[1].refreshToken.secret = REFRESH_TOKEN_SECRET
    /\ db[1].refreshToken = pre[1].refreshToken
    /\ last.res.status = 401

\* C17: a login that names no account, or enters a password that does not match the
\* named account's hash, or leaves a field out, is answered 400 or 401, sets no
\* cookie and leaves every stored password and refresh token as it was
C17_FailedLoginChangesNothing ==
    (last.op = "login" /\ (last.who = 0 \/ ~last.match)) =>
        /\ last.res.status \in {400, 401}
        /\ NoCookies(last.res)
        /\ db = pre

\* a wrong password is entered for an account that holds a session
C17_Witness ==
    /\ last.op = "login"
    /\ last.who \in Ids(pre)
    /\ ~last.match
    /\ last.res.status = 401
    /\ pre[last.who].refreshToken.secret = REFRESH_TOKEN_SECRET
    /\ db = pre

-----------------------------------------------------------------------------
(* Signing *)

\* the environment lacks a signing secret
SecretAbsent == env.JWT_SECRET = Undefined \/ env.REFRESH_TOKEN_SECRET = Undefined

\* the request just answered had to issue tokens: a login with the password of the
\* account it names, or a refresh presenting the stored token while the secret
\* that verifies it is configured
MustIssue ==
    \/ last.op = "login" /\ last.who # 0 /\ last.match
    \/ /\ last.op = "refresh"
       /\ Current(Presented)
       /\ env.REFRESH_TOKEN_SECRET = REFRESH_TOKEN_SECRET

-----------------------------------------------------------------------------
(* The two kinds of token *)

\* C19: a refresh token that the server signed, presented as the access token on a
\* protected route, is answered 401 by the gate; an access token that the server
\* signed, presented in the refreshToken cookie, is answered 401 by the refresh flow
C19_TokensNotInterchangeable ==
    /\ (/\ last.op \in ProtectedOps
        /\ Bearer \in issued
        /\ Bearer.secret = REFRESH_TOKEN_SECRET) =>
           last.gate = "reject" /\ last.res.status = 401
    /\ (/\ last.op = "refresh"
        /\ Presented \in issued
        /\ Presented.secret = JWT_SECRET) =>
           last.res.status = 401 /\ NoCookies(last.res) /\ db = pre

\* the stored, unexpired refresh token of an account is presented as its access token
C19_Witness ==
    /\ last.op \in ProtectedOps
    /\ Bearer.secret = REFRESH_TOKEN_SECRET
    /\ now < Bearer.exp
    /\ Bearer.id \in Ids(db)
    /\ db[Bearer.id].refreshToken = Bearer
    /\ last.res.status = 401

-----------------------------------------------------------------------------
(* Cookies *)

Flagged(cookie) ==
    cookie.set /\ cookie.httpOnly /\ cookie.secure /\ cookie.sameSite = "strict"

\* C20: a login or refresh answered 200 sets the accessToken cookie for 15 minutes
\* and the refreshToken cookie for 7 days; a logout answered 200 sets both to the
\* empty value with maxAge 0 and has cleared the session slot; each of these cookies
\* is httpOnly, secure and sameSite=strict
C20_CookieDelivery ==
    /\ (last.op \in {"login", "refresh"} /\ last.res.status = 200) =>
          /\ Flagged(last.res.accessToken) /\ Flagged(last.res.refreshToken)
          /\ last.res.accessToken.value.secret = JWT_SECRET
          /\ last.res.refreshToken.value.secret = REFRESH_TOKEN_SECRET
          /\ last.res.accessToken.maxAge = 15 * 60 * 1000
          /\ last.res.refreshToken.maxAge = 7 * 24 * 60 * 60 * 1000
    /\ (last.op = "logout" /\ last.res.status = 200) =>
          /\ Flagged(last.res.accessToken) /\ Flagged(last.res.refreshToken)
          /\ last.res.accessToken.value = NoToken /\ last.res.accessToken.maxAge = 0
          /\ last.res.refreshToken.value = NoToken /\ last.res.refreshToken.maxAge = 0
          /\ db[last.who].refreshToken = NullToken

\* a logout ends the session that a login opened
C20_Witness ==
    /\ last.op = "logout"
    /\ last.res.status = 200
    /\ pre[last.who].refreshToken.secret = REFRESH_TOKEN_SECRET
    /\ Flagged(last.res.refreshToken)
    /\ db[last.who].refreshToken = NullToken

-----------------------------------------------------------------------------
(* Password change, POST /change-password *)

\* the request just answered is a password change by an existing account
PasswordChange ==
    last.op = "changePassword" /\ last.gate = "pass" /\ last.who \in Ids(pre)

\* C21: a password change that proves the old password is answered 200, after which
\* the new password matches the stored hash and every other password that matched
\* before no longer does; one that enters a wrong old password is answered 401 and
\* leaves the stored hash as it was
C21_ChangePasswordReplacesSecret ==
    PasswordChange =>
        /\ (last.match /\ last.secret # NoString) =>
              /\ last.res.status = 200
              /\ bcryptCompare(last.secret, db[last.who].password)
              /\ \A p \in PlainPasswords \ {last.secret} :
                    ~bcryptCompare(p, db[last.who].password)
        /\ (~last.match /\ last.res.status # 400) =>
              /\ last.res.status = 401
              /\ db = pre

-----------------------------------------------------------------------------
(* Response bodies *)

\* C22: no response with a success status carries a stored password hash or a
\* stored refresh token in its body
C22_BodyWithoutSecrets ==
    last.res.status \in {200, 201} =>
        /\ last.res.data.password = NoString
        /\ last.res.data.refreshToken \in {NoToken, NullToken}

-----------------------------------------------------------------------------
(* Identity *)

\* the userName or the email of the registration just answered belonged to an
\* account when the request was answered
Taken ==
    \E u \in Ids(pre) : pre[u].userName = last.userName \/ pre[u].email = last.email

-----------------------------------------------------------------------------
(* Who writes the session slot *)

\* the request just answered put a token into the slot of account u
Filled(u) == ~Empty(db[u].refreshToken)

-----------------------------------------------------------------------------
(* Password change and the session *)

\* the password change just answered stored another hash
PasswordReplaced ==
    /\ PasswordChange
    /\ last.res.status = 200
    /\ db[last.who].password # pre[last.who].password

\* a password change leaves every stored refresh token as it was
SlotUntouched ==
    PasswordChange => \A u \in Ids(pre) : db[u].refreshToken = pre[u].refreshToken

\* C27: a password change leaves the stored refresh token as it was, and a refresh
\* request presenting that token after the change is answered 200
C27_SessionSurvivesPasswordChange ==
    (PasswordReplaced /\ pre[last.who].refreshToken.secret = REFRESH_TOKEN_SECRET) =>
        /\ db[last.who].refreshToken = pre[last.who].refreshToken
        /\ generateNewTokens([NoRequest EXCEPT !.refreshToken = db[last.who].refreshToken],
                             db, now).res.status = 200

-----------------------------------------------------------------------------
(* Saves that do not touch the password *)

SavesWithoutPassword == {"login", "refresh", "logout", "updateUserProfile"}

\* C28: login, refresh, logout and profile update leave every stored password hash
\* exactly as it was, so the password that matched before still matches
C28_NoRehash ==
    last.op \in SavesWithoutPassword =>
        \A u \in Ids(pre) : u \in Ids(db) /\ db[u].password = pre[u].password

\* a profile update has saved the document with another userName, and a login has
\* saved it with a new refresh token, the hash being the one stored at registration
C28_Witness ==
    /\ last.op = "updateUserProfile"
    /\ last.res.status = 200
    /\ db[last.who].userName # pre[last.who].userName
    /\ db[last.who].refreshToken.secret = REFRESH_TOKEN_SECRET
    /\ db[last.who].password = bcryptHash(GoodForm.password, 1)

-----------------------------------------------------------------------------
(* The account a login selects *)

\* account u has every identity field that the login just answered supplied
Selected(u) ==
    /\ last.userName # None => pre[u].userName = last.userName
    /\ last.email # None => pre[u].email = last.email

BothSupplied == last.userName # None /\ last.email # None

OneSupplied == (last.userName = None) # (last.email = None)

\* C29: a login is answered 200 only for an account that has every supplied
\* identity field and whose password matches; a login supplying a userName and an
\* email that no single account has is answered 401; a login supplying one of the
\* two is answered 200 when the account having it matches the password
C29_LoginSelectsOneAccount ==
    last.op = "login" =>
        /\ last.res.status = 200 =>
              /\ last.who \in Ids(pre)
              /\ Selected(last.who)
              /\ last.match
              /\ last.res.data.user = last.who
        /\ (BothSupplied /\ last.res.status # 400
                /\ ~\E u \in Ids(pre) : Selected(u)) => last.res.status = 401
        /\ (OneSupplied /\ last.res.status # 400) =>
              \A u \in Ids(pre) :
                  (Selected(u) /\ last.who = u /\ last.match)
                      => last.res.status = 200 /\ last.res.data.user = u

\* the userName of one account whose password is <<1>>, the email of another
\* account, and the password <<1>>: answered 401
C29_Witness ==
    /\ last.op = "login"
    /\ BothSupplied
    /\ \E u, v \in Ids(pre) :
          /\ u # v
          /\ pre[u].userName = last.userName
          /\ bcryptCompare(<<1>>, pre[u].password)
          /\ pre[v].email = last.email
    /\ last.res.status = 401
    /\ db = pre

-----------------------------------------------------------------------------
(* Uploaded files and Cloudinary assets *)

C30_ReferencedAssetsExist ==
    last.op = "updateUserProfile" => AssetsOf(db) \cap destroyed = {}

====
